---- MODULE Spec2Model ----
(***************************************************************************)
(* GrainSizeTools_script.py: the Saltykov unfolding call and the two-step  *)
(* resolution search calc_shape, as a state machine.                       *)
(*                                                                         *)
(* Numbers.  Diameters, left edges and volume targets are whole microns.   *)
(* A histogram of n classes over [lo, hi] has its midpoints at             *)
(* lo + (2i-1)(hi-lo)/(2n); lengths derived from the histogram are kept    *)
(* exactly, in units of 1/(2n) micron.  The range itself is kept in half   *)
(* microns (lo2, hi2) because numpy widens an empty range by 0.5 on each   *)
(* side.  Class frequencies are fixed-point numbers.                       *)
(***************************************************************************)
EXTENDS Integers, Sequences, FiniteSets, TLC

\* ---------------------------------------------------------------- bounds
MaxN == 3
MaxD == 4
MaxBins == 3
\* the largest shape standard error a fit reports
MaxErr == 2
\* fixed-point scale of the unfolding coefficients and of the 3D frequencies
FixScale == 50
\* fixed-point scale of a percentage (PctScale units = 1 %)
PctScale == 100

VARIABLES
    call,          \* which top-level function runs: "Saltykov" or "calc_shape"
    diameters,     \* the sample (both functions' first argument)
    numbins, calc_vol, text_file, return_data, left_edge,  \* Saltykov's arguments
    pc,            \* Saltykov's position
    err,           \* the exception Saltykov raised, "none" if none
    hist,          \* freq, bin_edges, binsize, left_edges, mid_points (lines 281-289)
    freq3D,        \* line 292
    cdf_norm,      \* line 298
    volume,        \* what lines 306-311 print
    done,          \* the steps Saltykov has performed so far
    class_range, initial_guess,   \* calc_shape's arguments
    fitTable,      \* what the least-squares fit yields for this sample, per class count
    spc,           \* calc_shape's position
    serr,          \* the exception calc_shape raised, "none" if none
    guess,         \* (shape, scale), lines 383-388
    class_list, stds,     \* lines 393-394
    index,         \* the sweep's position in class_list (1-based)
    evals,         \* the candidates evaluated so far, in order, and how
    optimal_num_classes,  \* line 401
    final          \* the final fit, lines 402-403

svars == <<diameters, numbins, calc_vol, text_file, return_data, left_edge,
           pc, err, hist, freq3D, cdf_norm, volume, done>>

cvars == <<class_range, initial_guess, fitTable, spc, serr, guess, class_list,
           stds, index, evals, optimal_num_classes, final>>

\* ------------------------------------------------------------ Python values
None == [some |-> FALSE, v |-> 0]
Some(x) == [some |-> TRUE, v |-> x]

PyInt(k) == [t |-> "int", v |-> k]
PyFloat(k) == [t |-> "float", v |-> k]
PyStr(s) == [t |-> "str", v |-> 0, s |-> s]

\* isinstance(x, int), isinstance(x, (int, float))
IsInt(x) == x.t = "int"
IsIntOrFloat(x) == x.t \in {"int", "float"}

\* ------------------------------------------------------------------ samples
RECURSIVE SeqsOfLen(_)
SeqsOfLen(n) ==
    IF n = 0 THEN {<<>>}
    ELSE {Append(s, d) : s \in SeqsOfLen(n - 1), d \in 1..MaxD}

\* non-empty samples of positive diameters, listed in non-decreasing order
Samples ==
    {s \in UNION {SeqsOfLen(n) : n \in 1..MaxN} :
        \A i \in 1..(Len(s) - 1) : s[i] <= s[i + 1]}

RECURSIVE SeqMax(_)
SeqMax(s) ==
    IF Len(s) = 1 THEN s[1]
    ELSE LET m == SeqMax(Tail(s)) IN IF s[1] > m THEN s[1] ELSE m

RECURSIVE SeqMin(_)
SeqMin(s) ==
    IF Len(s) = 1 THEN s[1]
    ELSE LET m == SeqMin(Tail(s)) IN IF s[1] < m THEN s[1] ELSE m

RECURSIVE SeqSum(_)
SeqSum(s) == IF s = <<>> THEN 0 ELSE s[1] + SeqSum(Tail(s))

\* ------------------------------------------------------- argument validation
\* ArgError without the left_edge check of lines 276-278
ArgErrorNoLeftEdge(nb, le) ==
    IF ~IsInt(nb) THEN "ValueError"
    ELSE IF nb.v <= 0 THEN "ValueError"
    ELSE "none"

\* lines 272-278: the exception the argument checks raise, "none" if none
ArgError(nb, le) ==
    IF ~IsInt(nb) THEN "ValueError"
    ELSE IF nb.v <= 0 THEN "ValueError"
    ELSE IF IsIntOrFloat(le) /\ le.v < 0 THEN "ValueError"
    ELSE "none"

\* ---------------------------------------------------------------- histogram
\* lines 281-284, the range handed to np.histogram, in half microns:
\* (diameters.min(), diameters.max()) when left_edge == 'min', else
\* (left_edge, diameters.max()).  numpy rejects first > last with a ValueError
\* and widens first == last to (first - 0.5, last + 0.5).
HistRange(d, le) ==
    LET first == IF le.t = "str" /\ le.s = "min" THEN SeqMin(d) ELSE le.v
        last == SeqMax(d)
    IN  IF first > last THEN [err |-> "ValueError", lo2 |-> 0, hi2 |-> 0]
        ELSE IF first = last
             THEN [err |-> "none", lo2 |-> 2 * first - 1, hi2 |-> 2 * last + 1]
             ELSE [err |-> "none", lo2 |-> 2 * first, hi2 |-> 2 * last]

\* the class (1..n) np.histogram puts diameter x in, 0 when x is out of range;
\* the last class is closed on the right
BinOf(x, n, lo2, hi2) ==
    IF 2 * x < lo2 \/ 2 * x > hi2 THEN 0
    ELSE IF 2 * x = hi2 THEN n
    ELSE ((2 * x - lo2) * n) \div (hi2 - lo2) + 1

Counts(d, n, lo2, hi2) ==
    [i \in 1..n |-> Cardinality({k \in 1..Len(d) : BinOf(d[k], n, lo2, hi2) = i})]

\* lines 281-289.  freq holds the class counts: density=True divides every
\* count by the same positive number, total * binsize, kept in `total` and
\* `binsize`.  binsize, left_edges and mid_points are in units of 1/(2n) micron.
Histogram(d, n, le) ==
    LET r == HistRange(d, le)
        w == r.hi2 - r.lo2
        c == Counts(d, n, r.lo2, r.hi2)
    IN  [err |-> r.err,
         freq |-> IF r.err = "none" THEN c ELSE <<>>,
         total |-> IF r.err = "none" THEN SeqSum(c) ELSE 0,
         binsize |-> w,
         left_edges |-> IF r.err = "none"
                        THEN [i \in 1..n |-> n * r.lo2 + (i - 1) * w] ELSE <<>>,
         mid_points |-> IF r.err = "none"
                        THEN [i \in 1..n |-> n * r.lo2 + (i - 1) * w + w \div 2]
                        ELSE <<>>]

NoHist ==
    [err |-> "none", freq |-> <<>>, total |-> 0, binsize |-> 0,
     left_edges |-> <<>>, mid_points |-> <<>>]

\* ---------------------------------------------------------------- unfolding
\* the integer square root, by bisection: lo * lo <= x < hi * hi
RECURSIVE ISqrtBetween(_, _, _)
ISqrtBetween(x, lo, hi) ==
    IF hi - lo <= 1 THEN lo
    ELSE LET mid == (lo + hi) \div 2
         IN  IF mid * mid <= x THEN ISqrtBetween(x, mid, hi)
             ELSE ISqrtBetween(x, lo, mid)

ISqrt(x) == ISqrtBetween(x, 0, x + 1)

\* the unfolding coefficient: the probability, times FixScale, that a sphere
\* of class j (diameter j * binsize) cut at a random height shows a section
\* of class i,  (sqrt(j^2 - (i-1)^2) - sqrt(j^2 - i^2)) / j.  It depends on
\* the classes alone, not on the data.
Coef(i, j) ==
    (ISqrt(FixScale * FixScale * (j * j - (i - 1) * (i - 1)))
       - ISqrt(FixScale * FixScale * (j * j - i * i))) \div j

Clamp(v) == IF v < 0 THEN 0 ELSE v

\* what the already-resolved larger classes project into class i
RECURSIVE Contribution(_, _, _, _)
Contribution(raw, i, j, n) ==
    IF j > n THEN 0
    ELSE Clamp(raw[j]) * Coef(i, j) + Contribution(raw, i, j + 1, n)

\* from the top class down: the observed frequency minus the contributions of
\* the larger classes, over the diagonal coefficient
RECURSIVE UnfoldFrom(_, _, _, _)
UnfoldFrom(freq, raw, i, n) ==
    IF i = 0 THEN raw
    ELSE UnfoldFrom(
            freq,
            [raw EXCEPT ![i] =
                (freq[i] * FixScale * FixScale - Contribution(raw, i, i + 1, n))
                    \div Coef(i, i)],
            i - 1, n)

\* the class frequencies before clamping
UnfoldRaw(freq) ==
    UnfoldFrom(freq, [i \in 1..Len(freq) |-> 0], Len(freq), Len(freq))

\* unfold_population without the clamp
UnfoldNoClamp(freq) == UnfoldRaw(freq)

\* tools.unfold_population: a negative class frequency is clamped at zero
unfold_population(freq) ==
    LET raw == UnfoldRaw(freq)
    IN  [i \in 1..Len(freq) |-> Clamp(raw[i])]

\* ------------------------------------------------------------ volume curve
\* line 295 without the factor binsize * (4/3) * pi, which is the same
\* positive number for every class and cancels in line 298
x_vol(mid_points) ==
    [i \in 1..Len(mid_points) |-> mid_points[i] * mid_points[i] * mid_points[i]]

\* line 296
freq_vol(mid_points, f3D) ==
    LET xv == x_vol(mid_points)
    IN  [i \in 1..Len(mid_points) |-> xv[i] * f3D[i]]

RECURSIVE PartialSum(_, _)
PartialSum(s, i) == IF i = 0 THEN 0 ELSE s[i] + PartialSum(s, i - 1)

\* line 297 with the class volumes in place of their running sum
NoCumsum(s) == s

\* line 297, np.cumsum
cumsum(s) == [i \in 1..Len(s) |-> PartialSum(s, i)]

\* 100 * (c / last) in units of 1/PctScale percent, rounded down
Pct(c, last) ==
    ((100 * c) \div last) * PctScale + (((100 * c) % last) * PctScale) \div last

\* line 298: cdf / cdf[-1] is nan for every class when cdf[-1] is 0
CdfNorm(cdf) ==
    LET n == Len(cdf)
    IN  IF cdf[n] = 0 THEN [nan |-> TRUE, y |-> [i \in 1..n |-> 0]]
        ELSE [nan |-> FALSE, y |-> [i \in 1..n |-> Pct(cdf[i], cdf[n])]]

NoCdf == [nan |-> FALSE, y |-> <<>>]

\* -------------------------------------------------------- volume fraction
\* line 303, np.argmax(mid_points > calc_vol): the first class whose midpoint
\* exceeds the target, the first class when none does.  t and x in 1/(2n) micron
RECURSIVE FirstGreater(_, _, _)
FirstGreater(x, t, i) ==
    IF i > Len(x) THEN 1
    ELSE IF x[i] > t THEN i
    ELSE FirstGreater(x, t, i + 1)

\* the first class whose midpoint is at or above the target
argmax_ge(x, t) ==
    IF \E i \in 1..Len(x) : x[i] >= t
    THEN CHOOSE i \in 1..Len(x) : x[i] >= t /\ \A j \in 1..(i - 1) : x[j] < t
    ELSE 1

argmax_gt(x, t) == FirstGreater(x, t, 1)

\* index - 1 as a Python subscript: -1 is the last element
PrevIndex(at, n) == IF at = 1 THEN n ELSE at - 1

\* round-half-even of num / den, den > 0
Round(num, den) ==
    LET q == num \div den
        r == num % den
    IN  IF 2 * r < den THEN q
        ELSE IF 2 * r > den THEN q + 1
        ELSE IF q % 2 = 0 THEN q ELSE q + 1

\* lines 302-305: volume = y[index - 1] + tan(angle) * (calc_vol - x[index - 1])
\* as the fraction num / den (den > 0) in units of 1/PctScale percent;
\* tan(arctan(s)) is s.  A 0/0 slope, or a nan cdf_norm, makes the volume nan.
InterpolatedVolume(x, cn, target, n) ==
    LET t == target * 2 * n
        y == cn.y
        at == argmax_gt(x, t)
        prev == PrevIndex(at, n)
        dx == x[at] - x[prev]
        dy == y[at] - y[prev]
        num == y[prev] * dx + dy * (t - x[prev])
    IN  [nan |-> cn.nan \/ dx = 0,
         index |-> at,
         prev |-> prev,
         num |-> IF dx < 0 THEN -num ELSE num,
         den |-> IF dx < 0 THEN -dx ELSE dx]

\* lines 306-311 without the test volume < 100.0
PrintedVolumeNoClamp(vol) ==
    IF vol.nan THEN 100 * PctScale ELSE Round(vol.num, vol.den)

\* lines 306-311: the percentage printed; a nan fails the test volume < 100.0
PrintedVolume(vol) ==
    IF vol.nan THEN 100 * PctScale
    ELSE IF vol.num < 100 * PctScale * vol.den THEN Round(vol.num, vol.den)
    ELSE 100 * PctScale

\* ------------------------------------------------------------------- inputs
NumbinsArgs == {PyInt(k) : k \in -1..MaxBins} \cup {PyFloat(2)}
LeftEdgeArgs == {PyStr("min")} \cup {PyInt(k) : k \in -1..MaxD} \cup {PyFloat(-1)}
CalcVolArgs == {None} \cup {Some(k) : k \in 0..MaxD}
TextFileArgs == {"None", "out.csv", "out.dat"}

InitSaltykov ==
    /\ call = "Saltykov"
    /\ diameters \in Samples
    /\ numbins \in NumbinsArgs
    /\ calc_vol \in CalcVolArgs
    /\ text_file \in TextFileArgs
    /\ return_data \in BOOLEAN
    /\ left_edge \in LeftEdgeArgs
    /\ pc = "validate"
    /\ err = "none"
    /\ hist = NoHist
    /\ freq3D = <<>>
    /\ cdf_norm = NoCdf
    /\ volume = None
    /\ done = {}
    /\ class_range = <<0, 0>>
    /\ initial_guess = "False"
    /\ fitTable = <<>>
    /\ spc = "idle"
    /\ serr = "none"
    /\ guess = <<>>
    /\ class_list = <<>>
    /\ stds = <<>>
    /\ index = 0
    /\ evals = <<>>
    /\ optimal_num_classes = None
    /\ final = None

\* the samples calc_shape is run on; what it reads of them is the fit's
\* outcome, which fitTable draws independently
ShapeSamples == {<<MaxD>>, <<1, MaxD>>}

FitOutcomes ==
    {[ok |-> FALSE, se |-> 0]} \cup {[ok |-> TRUE, se |-> e] : e \in 1..MaxErr}

InitCalcShape ==
    /\ call = "calc_shape"
    /\ diameters \in ShapeSamples
    /\ class_range \in (0..MaxBins) \X (0..MaxBins)
    /\ initial_guess \in {"False", "True", "other"}
    /\ fitTable \in [1..MaxBins -> FitOutcomes]
    /\ spc = "guess"
    /\ serr = "none"
    /\ guess = <<>>
    /\ class_list = <<>>
    /\ stds = <<>>
    /\ index = 0
    /\ evals = <<>>
    /\ optimal_num_classes = None
    /\ final = None
    /\ numbins = PyInt(0)
    /\ calc_vol = None
    /\ text_file = "None"
    /\ return_data = TRUE
    /\ left_edge = PyInt(0)
    /\ pc = "idle"
    /\ err = "none"
    /\ hist = NoHist
    /\ freq3D = <<>>
    /\ cdf_norm = NoCdf
    /\ volume = None
    /\ done = {}

Init == InitSaltykov \/ InitCalcShape

\* ----------------------------------------------------------------- Saltykov
\* lines 272-278
SaltykovValidate ==
    /\ pc = "validate"
    /\ err' = ArgError(numbins, left_edge)
    /\ pc' = IF err' = "none" THEN "histogram" ELSE "raised"
    /\ UNCHANGED cvars
    /\ UNCHANGED <<call, diameters, numbins, calc_vol, text_file, return_data,
                   left_edge, hist, freq3D, cdf_norm, volume, done>>

\* lines 281-289
SaltykovHistogram ==
    /\ pc = "histogram"
    /\ LET h == Histogram(diameters, numbins.v, left_edge)
       IN  /\ err' = h.err
           /\ hist' = IF h.err = "none" THEN h ELSE hist
           /\ pc' = IF h.err = "none" THEN "unfold" ELSE "raised"
           /\ done' = IF h.err = "none" THEN done \cup {"histogram"} ELSE done
    /\ UNCHANGED cvars
    /\ UNCHANGED <<call, diameters, numbins, calc_vol, text_file, return_data,
                   left_edge, freq3D, cdf_norm, volume>>

\* line 292
SaltykovUnfold ==
    /\ pc = "unfold"
    /\ freq3D' = unfold_population(hist.freq)
    /\ done' = done \cup {"unfold"}
    /\ pc' = "volume"
    /\ UNCHANGED cvars
    /\ UNCHANGED <<call, diameters, numbins, calc_vol, text_file, return_data,
                   left_edge, err, hist, cdf_norm, volume>>

\* lines 295-298
SaltykovVolume ==
    /\ pc = "volume"
    /\ cdf_norm' = CdfNorm(cumsum(freq_vol(hist.mid_points, freq3D)))
    /\ done' = done \cup {"volume"}
    /\ pc' = "calc_vol"
    /\ UNCHANGED cvars
    /\ UNCHANGED <<call, diameters, numbins, calc_vol, text_file, return_data,
                   left_edge, err, hist, freq3D, volume>>

\* lines 301-311
SaltykovCalcVol ==
    /\ pc = "calc_vol"
    /\ IF calc_vol.some
       THEN /\ volume' = Some(PrintedVolume(
                    InterpolatedVolume(hist.mid_points, cdf_norm, calc_vol.v, numbins.v)))
            /\ done' = done \cup {"calc_vol"}
       ELSE UNCHANGED <<volume, done>>
    /\ pc' = "export"
    /\ UNCHANGED cvars
    /\ UNCHANGED <<call, diameters, numbins, calc_vol, text_file, return_data,
                   left_edge, err, hist, freq3D, cdf_norm>>

\* lines 314-327: a name that ends neither in .txt nor in .csv raises
SaltykovExport ==
    /\ pc = "export"
    /\ IF text_file = "None"
       THEN /\ pc' = "return"
            /\ UNCHANGED <<err, done>>
       ELSE IF text_file = "out.csv"
       THEN /\ pc' = "return"
            /\ done' = done \cup {"export"}
            /\ UNCHANGED err
       ELSE /\ pc' = "raised"
            /\ err' = "ValueError"
            /\ UNCHANGED done
    /\ UNCHANGED cvars
    /\ UNCHANGED <<call, diameters, numbins, calc_vol, text_file, return_data,
                   left_edge, hist, freq3D, cdf_norm, volume>>

\* lines 330-335
SaltykovReturn ==
    /\ pc = "return"
    /\ done' = done \cup {IF return_data THEN "return_data" ELSE "plot"}
    /\ pc' = "returned"
    /\ UNCHANGED cvars
    /\ UNCHANGED <<call, diameters, numbins, calc_vol, text_file, return_data,
                   left_edge, err, hist, freq3D, cdf_norm, volume>>

\* --------------------------------------------------------------- calc_shape
\* line 223: left_edge=0 when the caller gives none
DefaultLeftEdge == PyInt(0)

\* Saltykov(diameters, numbins=n, return_data=True), lines 272-292 and 330-331:
\* the exception raised, or (mid_points, freq3D)
SaltykovData(d, n) ==
    LET e == ArgError(PyInt(n), DefaultLeftEdge)
        h == IF e = "none" THEN Histogram(d, n, DefaultLeftEdge) ELSE NoHist
    IN  IF e # "none" THEN [err |-> e, mid_points |-> <<>>, freq3D |-> <<>>]
        ELSE IF h.err # "none"
        THEN [err |-> h.err, mid_points |-> <<>>, freq3D |-> <<>>]
        ELSE [err |-> "none", mid_points |-> h.mid_points,
              freq3D |-> unfold_population(h.freq)]

\* tools.fit_log(x, y, p0): the least-squares fit of the lognormal
\* model to the unfolded histogram.  It either fails to converge or yields the
\* fitted parameters and their standard errors; the outcome is a function of
\* its arguments, fixed for the sample by fitTable.  The fitted parameters are
\* named by the histogram they were fitted to; sigma_error holds the shape's
\* standard error.
fit_log(x, y, p0) ==
    LET n == Len(x)
    IN  [ok |-> fitTable[n].ok,
         optimal_params |-> [fitted |-> n],
         sigma_error |-> <<fitTable[n].se>>]

\* lines 384-385, in tenths
DefaultGuess == [shape |-> 12, scale |-> 350]
\* what the user may type at the prompts of lines 387-388
UserGuesses == {[shape |-> 15, scale |-> 300]}

\* list(range(a, b)): the upper end left out
RangeListExclusive(a, b) == [i \in 1..(IF b > a THEN b - a ELSE 0) |-> a + i - 1]

\* a range whose ends are put in ascending order first
RangeListSwapped(a, b) ==
    [i \in 1..((IF b >= a THEN b - a ELSE a - b) + 1) |-> (IF b >= a THEN a ELSE b) + i - 1]

\* list(range(a, b + 1))
RangeList(a, b) == [i \in 1..(IF b >= a THEN b - a + 1 ELSE 0) |-> a + i - 1]

\* an argmin that keeps the last occurrence of the minimum
RECURSIVE ArgminLastFrom(_, _, _)
ArgminLastFrom(s, i, best) ==
    IF i > Len(s) THEN best
    ELSE ArgminLastFrom(s, i + 1, IF s[i] <= s[best] THEN i ELSE best)

ArgminLast(s) == ArgminLastFrom(s, 2, 1)

\* np.argmin: the position of the first occurrence of the minimum
RECURSIVE ArgminFrom(_, _, _)
ArgminFrom(s, i, best) ==
    IF i > Len(s) THEN best
    ELSE ArgminFrom(s, i + 1, IF s[i] < s[best] THEN i ELSE best)

argmin(s) == ArgminFrom(s, 2, 1)

\* the standard error stored at the next free position, not at the candidate's
StoreStdByArrival(s, i, v) == [s EXCEPT ![Len(evals) + 1] = v]

\* line 399, stds[index] = sigma_error[0]: stored at the candidate's position
StoreStd(s, i, v) == [s EXCEPT ![i] = v]

\* the guess handed to fit_log at lines 398 and 403: the fixed (shape, scale)
FitGuess == guess

\* lines 383-390
ShapeGuess ==
    /\ spc = "guess"
    /\ \/ /\ initial_guess = "False"
          /\ guess' = DefaultGuess
          /\ spc' = "class_list"
          /\ UNCHANGED serr
       \/ /\ initial_guess = "True"
          /\ guess' \in UserGuesses
          /\ spc' = "class_list"
          /\ UNCHANGED serr
       \/ /\ initial_guess \notin {"False", "True"}
          /\ serr' = "TypeError"
          /\ spc' = "raised"
          /\ UNCHANGED guess
    /\ UNCHANGED <<class_range, initial_guess, fitTable, class_list, stds, index,
                   evals, optimal_num_classes, final>>
    /\ UNCHANGED <<call, diameters, numbins, calc_vol, text_file, return_data, left_edge,
                   pc, err, hist, freq3D, cdf_norm, volume, done>>

\* lines 393-394
ShapeClassList ==
    /\ spc = "class_list"
    /\ class_list' = RangeList(class_range[1], class_range[2])
    /\ stds' = [i \in 1..Len(class_list') |-> 0]
    /\ index' = 1
    /\ spc' = "sweep"
    /\ UNCHANGED <<class_range, initial_guess, fitTable, serr, guess, evals,
                   optimal_num_classes, final>>
    /\ UNCHANGED <<call, diameters, numbins, calc_vol, text_file, return_data, left_edge,
                   pc, err, hist, freq3D, cdf_norm, volume, done>>

\* lines 396-399, one iteration of the loop; an exception of Saltykov or of
\* fit_log is not caught and leaves calc_shape
ShapeSweep ==
    /\ spc = "sweep"
    /\ index <= Len(class_list)
    /\ LET item == class_list[index]
           data == SaltykovData(diameters, item)
           fit == fit_log(data.mid_points, data.freq3D, FitGuess)
       IN  IF data.err # "none"
           THEN /\ serr' = data.err
                /\ spc' = "raised"
                /\ UNCHANGED <<stds, index, evals>>
           ELSE /\ evals' = Append(evals, [numbins |-> item,
                                           left_edge |-> DefaultLeftEdge,
                                           guess |-> FitGuess,
                                           ok |-> fit.ok])
                /\ IF fit.ok
                   THEN /\ stds' = StoreStd(stds, index, fit.sigma_error[1])
                        /\ index' = index + 1
                        /\ UNCHANGED <<serr, spc>>
                   ELSE /\ serr' = "RuntimeError"
                        /\ spc' = "raised"
                        /\ UNCHANGED <<stds, index>>
    /\ UNCHANGED <<class_range, initial_guess, fitTable, guess, class_list,
                   optimal_num_classes, final>>
    /\ UNCHANGED <<call, diameters, numbins, calc_vol, text_file, return_data, left_edge,
                   pc, err, hist, freq3D, cdf_norm, volume, done>>

\* the positions of class_list whose candidate has been evaluated
Evaluated == {evals[k].numbins - class_range[1] + 1 : k \in 1..Len(evals)}

\* lines 396-399 with the iterations taken in any order (spec section 5: the
\* loop may run its candidates in parallel): one iteration, for any candidate
\* not yet evaluated; index counts the iterations
ShapeSweepAnyOrder ==
    /\ spc = "sweep"
    /\ index <= Len(class_list)
    /\ \E at \in (1..Len(class_list)) \ Evaluated :
         LET item == class_list[at]
             data == SaltykovData(diameters, item)
             fit == fit_log(data.mid_points, data.freq3D, FitGuess)
         IN  IF data.err # "none"
             THEN /\ serr' = data.err
                  /\ spc' = "raised"
                  /\ UNCHANGED <<stds, index, evals>>
             ELSE /\ evals' = Append(evals, [numbins |-> item,
                                             left_edge |-> DefaultLeftEdge,
                                             guess |-> FitGuess,
                                             ok |-> fit.ok])
                  /\ IF fit.ok
                     THEN /\ stds' = StoreStd(stds, at, fit.sigma_error[1])
                          /\ index' = index + 1
                          /\ UNCHANGED <<serr, spc>>
                     ELSE /\ serr' = "RuntimeError"
                          /\ spc' = "raised"
                          /\ UNCHANGED <<stds, index>>
    /\ UNCHANGED <<class_range, initial_guess, fitTable, guess, class_list,
                   optimal_num_classes, final>>
    /\ UNCHANGED <<call, diameters, numbins, calc_vol, text_file, return_data, left_edge,
                   pc, err, hist, freq3D, cdf_norm, volume, done>>

\* line 401, after the loop; np.argmin of an empty array raises ValueError
ShapeSelect ==
    /\ spc = "sweep"
    /\ index > Len(class_list)
    /\ IF Len(stds) = 0
       THEN /\ serr' = "ValueError"
            /\ spc' = "raised"
            /\ UNCHANGED optimal_num_classes
       ELSE /\ optimal_num_classes' = Some(class_list[argmin(stds)])
            /\ spc' = "final_fit"
            /\ UNCHANGED serr
    /\ UNCHANGED <<class_range, initial_guess, fitTable, guess, class_list, stds,
                   index, evals, final>>
    /\ UNCHANGED <<call, diameters, numbins, calc_vol, text_file, return_data, left_edge,
                   pc, err, hist, freq3D, cdf_norm, volume, done>>

\* the bin count left in the loop variable item: the last candidate
FinalAtLastItem == class_list[Len(class_list)]

\* line 402, Saltykov(diameters, numbins=optimal_num_classes, ...)
FinalNumbins == optimal_num_classes.v

\* lines 402-403
ShapeFinalFit ==
    /\ spc = "final_fit"
    /\ LET data == SaltykovData(diameters, FinalNumbins)
           fit == fit_log(data.mid_points, data.freq3D, FitGuess)
       IN  IF data.err # "none"
           THEN /\ serr' = data.err
                /\ spc' = "raised"
                /\ UNCHANGED final
           ELSE IF ~fit.ok
           THEN /\ serr' = "RuntimeError"
                /\ spc' = "raised"
                /\ UNCHANGED final
           ELSE /\ final' = Some([numbins |-> FinalNumbins,
                                  guess |-> FitGuess,
                                  optimal_params |-> fit.optimal_params,
                                  sigma_err |-> fit.sigma_error])
                /\ spc' = "report"
                /\ UNCHANGED serr
    /\ UNCHANGED <<class_range, initial_guess, fitTable, guess, class_list, stds,
                   index, evals, optimal_num_classes>>
    /\ UNCHANGED <<call, diameters, numbins, calc_vol, text_file, return_data, left_edge,
                   pc, err, hist, freq3D, cdf_norm, volume, done>>

\* lines 405-428: the optimal values are printed and the plot is returned
ShapeReport ==
    /\ spc = "report"
    /\ spc' = "returned"
    /\ UNCHANGED <<class_range, initial_guess, fitTable, serr, guess, class_list,
                   stds, index, evals, optimal_num_classes, final>>
    /\ UNCHANGED <<call, diameters, numbins, calc_vol, text_file, return_data, left_edge,
                   pc, err, hist, freq3D, cdf_norm, volume, done>>

NextSaltykov ==
    \/ SaltykovValidate
    \/ SaltykovHistogram
    \/ SaltykovUnfold
    \/ SaltykovVolume
    \/ SaltykovCalcVol
    \/ SaltykovExport
    \/ SaltykovReturn

NextCalcShape ==
    \/ ShapeGuess
    \/ ShapeClassList
    \/ ShapeSweep
    \/ ShapeSelect
    \/ ShapeFinalFit
    \/ ShapeReport

\* calc_shape with the sweep's iterations in any order
NextAnyOrder ==
    \/ ShapeGuess
    \/ ShapeClassList
    \/ ShapeSweepAnyOrder
    \/ ShapeSelect
    \/ ShapeFinalFit
    \/ ShapeReport

Next == NextSaltykov \/ NextCalcShape

vars == <<call, svars, cvars>>

\* a call of Saltykov, a call of calc_shape, either
SpecSaltykov == InitSaltykov /\ [][NextSaltykov]_vars
SpecCalcShape == InitCalcShape /\ [][NextCalcShape]_vars
SpecAnyOrder == InitCalcShape /\ [][NextAnyOrder]_vars
Spec == Init /\ [][Next]_vars

TypeOK ==
    /\ pc \in {"idle", "validate", "histogram", "unfold", "volume", "calc_vol",
               "export", "return", "returned", "raised"}
    /\ err \in {"none", "ValueError"}
    /\ spc \in {"idle", "guess", "class_list", "sweep", "final_fit", "report",
                "returned", "raised"}
    /\ serr \in {"none", "TypeError", "ValueError", "RuntimeError"}

\* ===================================================================== claims
InSaltykov == call = "Saltykov"
InCalcShape == call = "calc_shape"

RangeLo == class_range[1]
RangeHi == class_range[2]
Candidates == RangeLo..RangeHi
\* calc_shape has ended, by returning or by raising
ShapeEnded == spc \in {"returned", "raised"}
\* the position in class_list of bin count c
PosOf(c) == c - RangeLo + 1

\* C1: the bin count chosen at line 401 has a recorded shape_stderr that is at
\* most that of every candidate of the sweep, and among the candidates that
\* share this minimum it is the smallest bin count.
C1_MinimumFirstChosen ==
    (InCalcShape /\ optimal_num_classes.some) =>
        LET c == optimal_num_classes.v
        IN  /\ c \in Candidates
            /\ \A d \in Candidates :
                  /\ stds[PosOf(c)] <= stds[PosOf(d)]
                  /\ (stds[PosOf(d)] = stds[PosOf(c)] => c <= d)

\* a sweep of three candidates where the minimum is shared by the last two
C1_Witness ==
    /\ InCalcShape
    /\ optimal_num_classes.some
    /\ Len(stds) >= 3
    /\ optimal_num_classes.v = RangeLo + 1
    /\ stds[1] > stds[2]
    /\ stds[3] = stds[2]

\* C2: when the fit fails for one candidate and converges for another, the
\* sweep goes on over all candidates and calc_shape ends with a final fit at a
\* converged candidate of the range.
C2_FailureRecovered ==
    (/\ InCalcShape
     /\ ShapeEnded
     /\ initial_guess \in {"False", "True"}
     /\ RangeLo >= 1
     /\ \E c \in Candidates : ~fitTable[c].ok
     /\ \E c \in Candidates : fitTable[c].ok)
    =>
    (/\ Len(evals) = RangeHi - RangeLo + 1
     /\ final.some
     /\ final.v.numbins \in Candidates
     /\ fitTable[final.v.numbins].ok)

\* C3: when the fit fails for every candidate, calc_shape ends in an error
\* (NoViableResolution), raised after all candidates were tried, without a
\* final fit.
C3_AllFailAfterFullSweep ==
    (/\ InCalcShape
     /\ ShapeEnded
     /\ initial_guess \in {"False", "True"}
     /\ RangeLo >= 1
     /\ RangeLo <= RangeHi
     /\ \A c \in Candidates : ~fitTable[c].ok)
    =>
    (/\ spc = "raised"
     /\ Len(evals) = RangeHi - RangeLo + 1
     /\ ~final.some)

\* Saltykov is past lines 301-311
SaltykovPastVolume == pc \in {"export", "return", "returned"} \/ (pc = "raised" /\ "volume" \in done)
TargetS == calc_vol.v * 2 * numbins.v

\* C4: with a target below the smallest midpoint Saltykov raises ValueError
\* and reports no volume fraction.
C4_TargetBelowRangeRejected ==
    (/\ InSaltykov
     /\ SaltykovPastVolume
     /\ calc_vol.some
     /\ TargetS < hist.mid_points[1])
    =>
    (/\ pc = "raised"
     /\ err = "ValueError"
     /\ ~volume.some)

BadNumbins == numbins.t # "int" \/ numbins.v < 1
BadLeftEdge == left_edge.t \in {"int", "float"} /\ left_edge.v < 0

C6_CdfMonotoneTo100 ==
    (InSaltykov /\ "volume" \in done) =>
        /\ ~cdf_norm.nan
        /\ Len(cdf_norm.y) = numbins.v
        /\ \A i \in 1..(Len(cdf_norm.y) - 1) : cdf_norm.y[i] <= cdf_norm.y[i + 1]
        /\ cdf_norm.y[Len(cdf_norm.y)] = 100 * PctScale

\* three classes with volume in each
C6_Witness ==
    /\ InSaltykov
    /\ "volume" \in done
    /\ Len(cdf_norm.y) = 3
    /\ 0 < cdf_norm.y[1]
    /\ cdf_norm.y[1] < cdf_norm.y[2]
    /\ cdf_norm.y[2] < cdf_norm.y[3]

\* C7: a target equal to or above the largest midpoint is reported as exactly
\* 100 %, and no reported volume fraction exceeds 100 %.
C7_TargetAtOrAboveTopIs100 ==
    (InSaltykov /\ "calc_vol" \in done) =>
        /\ volume.some
        /\ volume.v <= 100 * PctScale
        /\ (TargetS >= hist.mid_points[numbins.v] => volume.v = 100 * PctScale)

\* a target equal to the largest of several midpoints, with volume below it
C7_Witness ==
    /\ InSaltykov
    /\ "calc_vol" \in done
    /\ numbins.v >= 2
    /\ TargetS = hist.mid_points[numbins.v]
    /\ cdf_norm.y[1] > 0
    /\ cdf_norm.y[1] < 100 * PctScale
    /\ volume = Some(100 * PctScale)

\* C8: every class frequency of freq3D that the volume computation, the
\* export or the caller of Saltykov(return_data=True) receives is >= 0.
C8_Freq3DNonNegative ==
    (InSaltykov /\ "unfold" \in done) =>
        /\ Len(freq3D) = numbins.v
        /\ \A i \in 1..Len(freq3D) : freq3D[i] >= 0

\* unfolding produced a negative class and freq3D was returned to the caller
C8_Witness ==
    /\ InSaltykov
    /\ "return_data" \in done
    /\ \E i \in 1..Len(hist.freq) : UnfoldRaw(hist.freq)[i] < 0

\* the range handed to np.histogram has zero width
ZeroWidthRange ==
    SeqMax(diameters) =
        (IF left_edge.t = "str" THEN SeqMin(diameters) ELSE left_edge.v)

\* C9: a sample whose binning range has zero width makes Saltykov fail; it
\* neither computes the volume curve nor returns midpoints and frequencies.
C9_DegenerateSampleRejected ==
    (/\ InSaltykov
     /\ ~BadNumbins
     /\ ~BadLeftEdge
     /\ ZeroWidthRange
     /\ pc \notin {"validate", "histogram"})
    =>
    (/\ pc = "raised"
     /\ done = {})

\* C10: the sweep evaluates the bin counts of the inclusive range in ascending
\* order, each once, each with the default left edge and the one fixed
\* (shape, scale) guess; a bin count is selected only after all of them.
C10_AscendingSweepFixedGuess ==
    InCalcShape =>
        /\ Len(evals) <= (IF RangeHi >= RangeLo THEN RangeHi - RangeLo + 1 ELSE 0)
        /\ \A i \in 1..Len(evals) :
              /\ evals[i].numbins = RangeLo + i - 1
              /\ evals[i].left_edge = DefaultLeftEdge
              /\ evals[i].guess = guess
        /\ (initial_guess = "False" /\ spc # "guess" => guess = DefaultGuess)
        /\ (optimal_num_classes.some =>
              /\ Len(evals) = RangeHi - RangeLo + 1
              /\ \A i \in 1..Len(evals) : evals[i].ok)

C10_Witness ==
    /\ InCalcShape
    /\ spc = "returned"
    /\ Len(evals) >= 3
    /\ optimal_num_classes.some

\* the shape standard error the fit yields for each candidate, in ascending order
StderrByCandidate == [i \in 1..Len(class_list) |-> fitTable[class_list[i]].se]

\* C11: whatever the order in which the candidates are evaluated, each
\* recorded shape_stderr is the one the fit yields for that bin count, and
\* the bin count chosen is the one the ascending sweep chooses: the smallest
\* bin count among those of minimum shape_stderr.
C11_ChoiceIndependentOfOrder ==
    (InCalcShape /\ optimal_num_classes.some) =>
        LET c == optimal_num_classes.v
        IN  /\ stds = StderrByCandidate
            /\ c \in Candidates
            /\ c = class_list[argmin(StderrByCandidate)]
            /\ \A d \in Candidates :
                  /\ fitTable[c].se <= fitTable[d].se
                  /\ (fitTable[d].se = fitTable[c].se => c <= d)

\* three candidates evaluated in descending order, the minimum shared by the
\* last two bin counts
C11_Witness ==
    /\ InCalcShape
    /\ optimal_num_classes.some
    /\ Len(evals) = 3
    /\ evals[1].numbins > evals[2].numbins
    /\ evals[2].numbins > evals[3].numbins
    /\ stds[1] > stds[2]
    /\ stds[3] = stds[2]
    /\ optimal_num_classes.v = RangeLo + 1

\* C12: for a target t with min(midpoints) <= t < max(midpoints), Saltykov
\* brackets t by the first midpoint strictly greater than t and the midpoint
\* just before it, the volume it computes is the linear interpolation of the
\* cumulative percentages at these two midpoints and lies between them, and
\* the percentage printed is that volume rounded to two decimals.
C12_InteriorTargetInterpolated ==
    (/\ InSaltykov
     /\ "calc_vol" \in done
     /\ hist.mid_points[1] <= TargetS
     /\ TargetS < hist.mid_points[numbins.v])
    =>
    LET x == hist.mid_points
        y == cdf_norm.y
        v == InterpolatedVolume(x, cdf_norm, calc_vol.v, numbins.v)
    IN  /\ v.index \in 2..numbins.v
        /\ x[v.index] > TargetS
        /\ \A j \in 1..(v.index - 1) : x[j] <= TargetS
        /\ v.prev = v.index - 1
        /\ ~v.nan
        /\ v.den = x[v.index] - x[v.prev]
        /\ v.num - y[v.prev] * v.den = (y[v.index] - y[v.prev]) * (TargetS - x[v.prev])
        /\ y[v.prev] * v.den <= v.num
        /\ v.num <= y[v.index] * v.den
        /\ volume.some
        /\ 2 * (volume.v * v.den - v.num) <= v.den
        /\ 2 * (v.num - volume.v * v.den) <= v.den

\* a target strictly between the second and third of three midpoints, the
\* volume strictly between the two cumulative percentages
C12_Witness ==
    /\ InSaltykov
    /\ "calc_vol" \in done
    /\ numbins.v = 3
    /\ hist.mid_points[2] < TargetS
    /\ TargetS < hist.mid_points[3]
    /\ cdf_norm.y[2] < volume.v
    /\ volume.v < cdf_norm.y[3]

\* what holds of the final fit once it is made
FinalFitAtChosen ==
    final.some =>
        /\ optimal_num_classes.some
        /\ final.v.numbins = optimal_num_classes.v
        /\ final.v.optimal_params.fitted = optimal_num_classes.v
        /\ final.v.guess = guess
        /\ Len(evals) = Len(class_list)
        /\ \A k \in 1..Len(evals) : evals[k].guess = final.v.guess
        /\ final.v.sigma_err[1] = stds[PosOf(optimal_num_classes.v)]
        /\ \A i \in 1..Len(stds) : final.v.sigma_err[1] <= stds[i]

\* C13: after the sweep calc_shape makes exactly one final fit, at the chosen
\* bin count and with the guess of the sweep; what it reports is the result
\* of that fit, unchanged; and the final fit's shape standard error equals
\* the minimum of the standard errors recorded in the sweep.
C13_OneFinalFitAtChosen ==
    /\ [](InCalcShape =>
            /\ (final.some <=> spc \in {"report", "returned"})
            /\ FinalFitAtChosen)
    /\ [][final' # final =>
            /\ ~final.some
            /\ final'.some
            /\ spc = "final_fit"
            /\ spc' = "report"]_vars

\* the result is reported for the middle one of three candidates, the only
\* one of minimum standard error
C13_Witness ==
    /\ InCalcShape
    /\ spc = "returned"
    /\ final.some
    /\ Len(class_list) = 3
    /\ final.v.numbins = RangeLo + 1
    /\ stds[2] < stds[1]
    /\ stds[2] < stds[3]

\* C14: with an empty candidate range (class_range[0] > class_range[1])
\* calc_shape evaluates no candidate, chooses no bin count, makes no final fit
\* and returns nothing: past its guess it ends at the selection step, with the
\* ValueError of an argmin over no values.  For every range, a final fit is
\* made only at a bin count of the requested range.
C14_EmptyRangeEndsAtSelection ==
    InCalcShape =>
        /\ (final.some => final.v.numbins \in Candidates)
        /\ (RangeLo > RangeHi =>
              /\ class_list = <<>>
              /\ evals = <<>>
              /\ ~optimal_num_classes.some
              /\ ~final.some
              /\ spc \in {"guess", "class_list", "sweep", "raised"}
              /\ (spc = "raised" =>
                    IF initial_guess \in {"False", "True"}
                    THEN serr = "ValueError" /\ index = 1
                    ELSE serr = "TypeError"))

\* an empty range, the guess accepted, the error raised at the selection
C14_Witness ==
    /\ InCalcShape
    /\ RangeLo > RangeHi
    /\ RangeHi >= 1
    /\ initial_guess \in {"False", "True"}
    /\ spc = "raised"
    /\ serr = "ValueError"
    /\ evals = <<>>

====
